---- MODULE Spec2Model ----
(***************************************************************************)
(* Model of pyspeckit/spectrum/models/hill5infall.py: the Hill5 analytic   *)
(* infall model hill5_model, its radiation helper jfunc and the descriptor *)
(* hill5_fitter.                                                           *)
(*                                                                         *)
(* numpy evaluates the model in IEEE-754 binary64.  The model keeps the   *)
(* IEEE-754 structure: a value is NaN, +inf, -inf or a finite number with  *)
(* a bounded significand and a bounded exponent; every operation rounds to *)
(* the significand, overflows to an infinity, underflows to zero, and      *)
(* follows the IEEE rules for the special values (NaN is contagious,       *)
(* inf-inf, 0*inf, 0/0 and inf/inf are NaN, x/0 is an infinity, every      *)
(* ordered comparison with NaN is false, NaN != NaN).  The radix is 10 and *)
(* the significand has Precision digits instead of 53 bits, so that the    *)
(* literals of the source (1e-4, 2.73, ...) are exact and every            *)
(* intermediate product fits TLC's integers.  Zero is unsigned: no         *)
(* reachable computation divides a non-zero value by a negative zero.      *)
(***************************************************************************)
EXTENDS Integers, Sequences, FiniteSets

\* ------------------------------------------------------------------------
\* Floating-point values (numpy float64, line 13: import numpy as np)
\* ------------------------------------------------------------------------

\* Decimal digits of the significand.
Precision == 4
\* Largest and smallest decimal exponent of a finite non-zero value
\* (float64: 1.8e308 down to the subnormal 4.9e-324).
MaxExp10 == 308
MinExp10 == -324

NaN  == [c |-> "nan", m |-> 0,  e |-> 0]
PInf == [c |-> "inf", m |-> 1,  e |-> 0]
NInf == [c |-> "inf", m |-> -1, e |-> 0]
Zero == [c |-> "fin", m |-> 0,  e |-> 0]

RECURSIVE Pow10(_)
Pow10(n) == IF n <= 0 THEN 1 ELSE 10 * Pow10(n - 1)

RECURSIVE Digits(_)
Digits(n) == IF n < 10 THEN 1 ELSE 1 + Digits(n \div 10)

Abs(n) == IF n < 0 THEN -n ELSE n
Sign(n) == IF n < 0 THEN -1 ELSE IF n > 0 THEN 1 ELSE 0

\* The finite value m * 10^e with m already of Precision digits: overflow
\* gives an infinity, underflow gives zero.
Range(m, e) ==
    IF e + Precision - 1 > MaxExp10 THEN (IF m > 0 THEN PInf ELSE NInf)
    ELSE IF e + Precision - 1 < MinExp10 THEN Zero
    ELSE [c |-> "fin", m |-> m, e |-> e]

\* The float nearest to the integer m times 10^e (round half away from zero).
Round(m, e) ==
    IF m = 0 THEN Zero
    ELSE LET a == Abs(m)
             d == Digits(a)
         IN  IF d > Precision
             THEN LET sh == d - Precision
                      q  == (a + 5 * Pow10(sh - 1)) \div Pow10(sh)
                  IN  IF q = Pow10(Precision)
                      THEN Range(Sign(m) * Pow10(Precision - 1), e + sh + 1)
                      ELSE Range(Sign(m) * q, e + sh)
             ELSE Range(Sign(m) * a * Pow10(Precision - d), e - (Precision - d))

\* A literal of the source, m * 10^e, as the float it is read as.
Lit(m, e) == Round(m, e)
One == Lit(1, 0)

IsNaN(x) == x.c = "nan"
IsInf(x) == x.c = "inf"
IsFinite(x) == x.c = "fin"

Neg(x) == IF x.c = "nan" THEN NaN ELSE [x EXCEPT !.m = -x.m]

Add(x, y) ==
    IF IsNaN(x) \/ IsNaN(y) THEN NaN
    ELSE IF IsInf(x) THEN (IF IsInf(y) /\ y.m # x.m THEN NaN ELSE x)
    ELSE IF IsInf(y) THEN y
    ELSE IF x.m = 0 THEN y
    ELSE IF y.m = 0 THEN x
    ELSE LET hi == IF x.e >= y.e THEN x ELSE y
             lo == IF x.e >= y.e THEN y ELSE x
             df == hi.e - lo.e
         IN  IF df > Precision + 1 THEN hi
             ELSE Round(hi.m * Pow10(df) + lo.m, lo.e)

Sub(x, y) == Add(x, Neg(y))

Mul(x, y) ==
    IF IsNaN(x) \/ IsNaN(y) THEN NaN
    ELSE IF IsInf(x) \/ IsInf(y)
         THEN IF x.m = 0 \/ y.m = 0 THEN NaN
              ELSE IF Sign(x.m) = Sign(y.m) THEN PInf ELSE NInf
    ELSE Round(x.m * y.m, x.e + y.e)

Div(x, y) ==
    IF IsNaN(x) \/ IsNaN(y) THEN NaN
    ELSE IF IsInf(x)
         THEN IF IsInf(y) THEN NaN
              ELSE IF Sign(x.m) * (IF y.m < 0 THEN -1 ELSE 1) > 0 THEN PInf ELSE NInf
    ELSE IF IsInf(y) THEN Zero
    ELSE IF y.m = 0
         THEN IF x.m = 0 THEN NaN ELSE IF x.m > 0 THEN PInf ELSE NInf
    ELSE LET a == Abs(x.m) * Pow10(Precision + 1)
             q == a \div Abs(y.m)
         IN  Round(Sign(x.m) * Sign(y.m) * q, x.e - y.e - (Precision + 1))

\* x > y and x < y; false when either side is NaN.
Gt(x, y) ==
    IF IsNaN(x) \/ IsNaN(y) THEN FALSE
    ELSE LET d == Sub(x, y) IN (~IsNaN(d)) /\ d.m > 0
Lt(x, y) == Gt(y, x)
\* x != y; true when either side is NaN.
Ne(x, y) == IsNaN(x) \/ IsNaN(y) \/ x # y

\* A boolean array element used in arithmetic: True is 1.0, False is 0.0.
BoolF(b) == IF b THEN One ELSE Zero

\* The integer n as a float (n! and the decade shift of Exp).
FromInt(n) == Round(n, 0)

\* floor(x + 1/2) of a finite x of magnitude below 10^Precision.
Nearest(x) ==
    IF x.e >= 0 THEN x.m * Pow10(x.e)
    ELSE IF -x.e > Precision THEN 0
    ELSE (2 * x.m + Pow10(-x.e)) \div (2 * Pow10(-x.e))

LN10 == Lit(2302585, -6)

\* sum of r^n / n!, added until a term no longer changes the sum.
RECURSIVE ExpSeries(_, _, _, _)
ExpSeries(r, n, term, acc) ==
    LET t == Div(Mul(term, r), FromInt(n))
        s == Add(acc, t)
    IN  IF s = acc THEN acc ELSE ExpSeries(r, n + 1, t, s)

\* np.exp: exp(x) = 10^k * exp(x - k ln 10).
Exp(x) ==
    IF IsNaN(x) THEN NaN
    ELSE IF IsInf(x) THEN (IF x.m > 0 THEN PInf ELSE Zero)
    ELSE IF x.m = 0 THEN One
    \* |x| >= 10^Precision, far past ln of the largest float: saturated
    ELSE IF x.e > 0 THEN (IF x.m > 0 THEN PInf ELSE Zero)
    ELSE LET k == Nearest(Div(x, LN10))
             r == Sub(x, Mul(FromInt(k), LN10))
             s == ExpSeries(r, 1, One, One)
         IN  Range(s.m, s.e + k)

\* ------------------------------------------------------------------------
\* Inputs of a call
\* ------------------------------------------------------------------------

\* Longest independent-variable array a call is given.
MaxLen == 2

\* A sample of xarr with its two unit views, xarr.as_unit('km/s') and
\* xarr.as_unit('Hz'); the conversion itself is the host framework's.  One
\* channel lies on the line, one far off it (a line-free channel).
Channels ==
    { [kms |-> Lit(0, 0),  Hz |-> Lit(9317, 7)],
      [kms |-> Lit(50, 0), Hz |-> Lit(9316, 7)] }

XArrs == UNION { [1..n -> Channels] : n \in 1..MaxLen }

Taus      == { Lit(-1, 4), Lit(0, 0), Lit(1, -4), Lit(5, -1) }
VLsrs     == { Lit(-1, 0), Lit(1, 0) }
VInfalls  == { Lit(0, 0), Lit(1, 0) }
Sigmas    == { Lit(0, 0), Lit(1, 0) }
TPeaks    == { Lit(0, 0), Lit(5, 0) }
\* TBG as the caller passes it: a value, or omitted.
Omitted   == [c |-> "omitted", m |-> 0, e |-> 0]
TBGArgs   == { Omitted, Lit(5, 0) }

as_unit(xarr, unit) ==
    [i \in DOMAIN xarr |-> IF unit = "km/s" THEN xarr[i].kms ELSE xarr[i].Hz]

\* ------------------------------------------------------------------------
\* jfunc (lines 60-75)
\* ------------------------------------------------------------------------
H == Lit(66260755, -34)
K == Lit(1380658, -22)

jfunc(t, nu) ==
    LET to == Div(Mul(H, nu), K)
    IN  Div(to, Sub(Exp(Div(to, t)), Lit(1, 0)))

\* ------------------------------------------------------------------------
\* hill5_model (lines 16-58), statement by statement
\* ------------------------------------------------------------------------
TBG_default == Lit(273, -2)

\* (variant: vr written with the sign of vf)
vr_of_plus(v_lsr, v_infall) == Add(v_lsr, v_infall)
\* (variant: the operands of vr exchanged)
vr_of_swapped(v_lsr, v_infall) == Sub(v_infall, v_lsr)
\* line 40 and line 41
vf_of(v_lsr, v_infall) == Add(v_lsr, v_infall)
vr_of(v_lsr, v_infall) == Sub(v_lsr, v_infall)

\* lines 44, 45: tau*np.exp(-((v-vc)/sigma)**2 / 2.0)
TauProfile(tau, v, vc, sigma) ==
    LET z == Div(Sub(v, vc), sigma)
    IN  Mul(tau, Exp(Div(Neg(Mul(z, z)), Lit(2, 0))))

\* lines 47, 48: (1-np.exp(-x))/x * (x>1e-4) + (x < 1e-4)
Substitution(x) ==
    Add(Mul(Div(Sub(Lit(1, 0), Exp(Neg(x))), x), BoolF(Gt(x, Lit(1, -4)))),
        BoolF(Lt(x, Lit(1, -4))))

\* (variant: NaN replaced by 0.0, as np.nan_to_num does)
ReplaceNaN_zero(sub) ==
    [i \in DOMAIN sub |-> IF Ne(sub[i], sub[i]) THEN Lit(0, 0) ELSE sub[i]]
\* lines 49, 50: sub[sub != sub] = 1.0
ReplaceNaN(sub) ==
    [i \in DOMAIN sub |-> IF Ne(sub[i], sub[i]) THEN Lit(1, 0) ELSE sub[i]]

\* (variant: the exp(-tauf) attenuation left out)
HillElement_noexp(tpeak, TBG, nu, sf, sr, tf) ==
    Mul(Sub(jfunc(tpeak, nu), jfunc(TBG, nu)), Sub(sf, sr))
\* line 53
HillElement(tpeak, TBG, nu, sf, sr, tf) ==
    Mul(Sub(jfunc(tpeak, nu), jfunc(TBG, nu)), Sub(sf, Mul(Exp(Neg(tf)), sr)))

\* (variant: only the first element is tested)
AnyNaN_first(a) == IsNaN(a[1])
\* line 55: np.isnan(hill_array).any()
AnyNaN(a) == \E i \in DOMAIN a : IsNaN(a[i])

\* ------------------------------------------------------------------------
\* hill5_fitter (lines 77-84)
\* ------------------------------------------------------------------------
\* (variant: v_lsr flagged as lower-bounded like its neighbours)
hill5_fitter_args_limited ==
    [ modelfunc     |-> "hill5_model",
      npars         |-> 5,
      parnames      |-> <<"tau", "v_lsr", "v_infall", "sigma", "tpeak">>,
      parlimited    |-> << <<TRUE, FALSE>>, <<TRUE, FALSE>>, <<TRUE, FALSE>>,
                           <<TRUE, FALSE>>, <<TRUE, FALSE>> >>,
      parlimits     |-> << <<0, 0>>, <<0, 0>>, <<0, 0>>, <<0, 0>>, <<0, 0>> >>,
      shortvarnames |-> <<"\\tau", "v_{lsr}", "v_{infall}", "\\sigma", "T_{peak}">>,
      fitunit       |-> "km/s",
      guess_types   |-> <<"1.0", "center", "1.0", "width", "amplitude">> ]
\* The arguments model.SpectralModel is called with.
hill5_fitter_args ==
    [ modelfunc     |-> "hill5_model",
      npars         |-> 5,
      parnames      |-> <<"tau", "v_lsr", "v_infall", "sigma", "tpeak">>,
      parlimited    |-> << <<TRUE, FALSE>>, <<FALSE, FALSE>>, <<TRUE, FALSE>>,
                           <<TRUE, FALSE>>, <<TRUE, FALSE>> >>,
      parlimits     |-> << <<0, 0>>, <<0, 0>>, <<0, 0>>, <<0, 0>>, <<0, 0>> >>,
      shortvarnames |-> <<"\\tau", "v_{lsr}", "v_{infall}", "\\sigma", "T_{peak}">>,
      fitunit       |-> "km/s",
      guess_types   |-> <<"1.0", "center", "1.0", "width", "amplitude">> ]

\* model.SpectralModel is outside this file: the descriptor it builds is
\* taken to expose the arguments it was given, as section 4.3 describes.
SpectralModel(a) ==
    [ modelfunc     |-> a.modelfunc,
      npars         |-> a.npars,
      parnames      |-> a.parnames,
      parlimited    |-> a.parlimited,
      parlimits     |-> a.parlimits,
      shortvarnames |-> a.shortvarnames,
      fitunit       |-> a.fitunit,
      guess_types   |-> a.guess_types ]

\* ------------------------------------------------------------------------
\* State
\* ------------------------------------------------------------------------
VARIABLES
    pc,              \* position in hill5_model, or how the last call ended
    args,            \* the arguments of the call, as passed
    TBG,             \* the TBG parameter after the default is applied
    vf, vr,
    velocity_array, tauf, taur, subf, subr, frequency, hill_array,
    outcome,         \* what the call gave its caller
    hill5_fitter     \* the module-level descriptor

vars == <<pc, args, TBG, vf, vr, velocity_array, tauf, taur, subf, subr,
          frequency, hill_array, outcome, hill5_fitter>>

locals == <<vf, vr, velocity_array, tauf, taur, subf, subr, frequency, hill_array>>

NoArgs == [xarr |-> <<>>, tau |-> Zero, v_lsr |-> Zero, v_infall |-> Zero,
           sigma |-> Zero, tpeak |-> Zero, TBG |-> Omitted]
NoOutcome == [kind |-> "none", value |-> <<>>, exc |-> "", msg |-> ""]

Init ==
    /\ pc = "ready"
    /\ args = NoArgs
    /\ TBG = TBG_default
    /\ vf = Zero /\ vr = Zero
    /\ velocity_array = <<>> /\ tauf = <<>> /\ taur = <<>>
    /\ subf = <<>> /\ subr = <<>> /\ frequency = <<>> /\ hill_array = <<>>
    /\ outcome = NoOutcome
    /\ hill5_fitter = SpectralModel(hill5_fitter_args)

\* A caller enters hill5_model (line 16): the parameters are bound, TBG to
\* 2.73 when omitted; the locals of the new frame are unset.
Call ==
    /\ pc \in {"ready", "returned", "raised"}
    /\ \E xarr \in XArrs, tau \in Taus, v_lsr \in VLsrs, v_infall \in VInfalls,
          sigma \in Sigmas, tpeak \in TPeaks, tbg \in TBGArgs :
          /\ args' = [xarr |-> xarr, tau |-> tau, v_lsr |-> v_lsr,
                      v_infall |-> v_infall, sigma |-> sigma, tpeak |-> tpeak,
                      TBG |-> tbg]
          /\ TBG' = IF tbg = Omitted THEN TBG_default ELSE tbg
    /\ pc' = "l40"
    /\ vf' = Zero /\ vr' = Zero
    /\ velocity_array' = <<>> /\ tauf' = <<>> /\ taur' = <<>>
    /\ subf' = <<>> /\ subr' = <<>> /\ frequency' = <<>> /\ hill_array' = <<>>
    /\ outcome' = NoOutcome
    /\ UNCHANGED hill5_fitter

\* lines 40-41
Line40 ==
    /\ pc = "l40"
    /\ vf' = vf_of(args.v_lsr, args.v_infall)
    /\ vr' = vr_of(args.v_lsr, args.v_infall)
    /\ pc' = "l43"
    /\ UNCHANGED <<args, TBG, velocity_array, tauf, taur, subf, subr,
                   frequency, hill_array, outcome, hill5_fitter>>

\* lines 43-45
Line43 ==
    /\ pc = "l43"
    /\ LET va == as_unit(args.xarr, "km/s")
       IN  /\ velocity_array' = va
           /\ tauf' = [i \in DOMAIN va |-> TauProfile(args.tau, va[i], vf, args.sigma)]
           /\ taur' = [i \in DOMAIN va |-> TauProfile(args.tau, va[i], vr, args.sigma)]
    /\ pc' = "l47"
    /\ UNCHANGED <<args, TBG, vf, vr, subf, subr, frequency, hill_array,
                   outcome, hill5_fitter>>

\* lines 47-48
Line47 ==
    /\ pc = "l47"
    /\ subf' = [i \in DOMAIN tauf |-> Substitution(tauf[i])]
    /\ subr' = [i \in DOMAIN taur |-> Substitution(taur[i])]
    /\ pc' = "l49"
    /\ UNCHANGED <<args, TBG, vf, vr, velocity_array, tauf, taur, frequency,
                   hill_array, outcome, hill5_fitter>>

\* lines 49-50
Line49 ==
    /\ pc = "l49"
    /\ subf' = ReplaceNaN(subf)
    /\ subr' = ReplaceNaN(subr)
    /\ pc' = "l52"
    /\ UNCHANGED <<args, TBG, vf, vr, velocity_array, tauf, taur, frequency,
                   hill_array, outcome, hill5_fitter>>

\* lines 52-53
Line52 ==
    /\ pc = "l52"
    /\ LET fr == as_unit(args.xarr, "Hz")
       IN  /\ frequency' = fr
           /\ hill_array' = [i \in DOMAIN fr |->
                  HillElement(args.tpeak, TBG, fr[i], subf[i], subr[i], tauf[i])]
    /\ pc' = "l55"
    /\ UNCHANGED <<args, TBG, vf, vr, velocity_array, tauf, taur, subf, subr,
                   outcome, hill5_fitter>>

\* lines 55-56: the NaN guard raises
Raise ==
    /\ pc = "l55"
    /\ AnyNaN(hill_array)
    /\ outcome' = [kind |-> "raise", value |-> <<>>, exc |-> "ValueError",
                   msg |-> "Hill5 model has a NAN"]
    /\ pc' = "raised"
    /\ UNCHANGED <<args, TBG, locals, hill5_fitter>>

\* line 58
Return ==
    /\ pc = "l55"
    /\ ~AnyNaN(hill_array)
    /\ outcome' = [kind |-> "return", value |-> hill_array, exc |-> "", msg |-> ""]
    /\ pc' = "returned"
    /\ UNCHANGED <<args, TBG, locals, hill5_fitter>>

Next == Call \/ Line40 \/ Line43 \/ Line47 \/ Line49 \/ Line52 \/ Raise \/ Return

Spec == Init /\ [][Next]_vars

\* ------------------------------------------------------------------------
\* Properties
\* ------------------------------------------------------------------------
Le(x, y) == (~IsNaN(x)) /\ (~IsNaN(y)) /\ ~Gt(x, y)
Ge(x, y) == Le(y, x)
Ended == pc \in {"returned", "raised"}
\* the substitution of lines 47-50 on one value
SubAt(x) == LET s == Substitution(x) IN IF IsNaN(s) THEN Lit(1, 0) ELSE s

\* C1: when any element of the computed array is NaN the call raises with the
\* message "Hill5 model has a NAN" and returns nothing; no returned array
\* holds a NaN.
C1_NaNGuard ==
    /\ (Ended /\ \E i \in DOMAIN hill_array : hill_array[i].c = "nan")
          => /\ pc = "raised"
             /\ outcome.kind = "raise"
             /\ outcome.msg = "Hill5 model has a NAN"
             /\ outcome.value = <<>>
    /\ pc = "returned"
          => /\ outcome.kind = "return"
             /\ \A i \in DOMAIN outcome.value : outcome.value[i].c # "nan"
\* a negative tau whose result holds a NaN, in the second sample only,
\* has raised
C1_Witness ==
    /\ pc = "raised"
    /\ Lt(args.tau, Zero)
    /\ Len(hill_array) = 2
    /\ ~IsNaN(hill_array[1]) /\ IsNaN(hill_array[2])

\* C2 (as claimed): with tau, v_infall, sigma, tpeak >= 0 the call returns
\* an array of N finite elements.
C2_ValidReturnsFinite ==
    (/\ Ended
     /\ Ge(args.tau, Zero) /\ Ge(args.v_infall, Zero)
     /\ Ge(args.sigma, Zero) /\ Ge(args.tpeak, Zero))
        => /\ pc = "returned"
           /\ Len(outcome.value) = Len(args.xarr)
           /\ \A i \in DOMAIN outcome.value : IsFinite(outcome.value[i])

\* C3 (as claimed): a call raises or returns an array of finite elements.
C3_FiniteOrError ==
    pc = "returned" => \A i \in DOMAIN outcome.value : IsFinite(outcome.value[i])

C4_Element(a, s) ==
    LET tbg == IF a.TBG = Omitted THEN Lit(273, -2) ELSE a.TBG
        cf  == Add(a.v_lsr, a.v_infall)
        cr  == Sub(a.v_lsr, a.v_infall)
        zf  == Div(Sub(s.kms, cf), a.sigma)
        zr  == Div(Sub(s.kms, cr), a.sigma)
        tf  == Mul(a.tau, Exp(Div(Neg(Mul(zf, zf)), Lit(2, 0))))
        tr  == Mul(a.tau, Exp(Div(Neg(Mul(zr, zr)), Lit(2, 0))))
    IN  Mul(Sub(jfunc(a.tpeak, s.Hz), jfunc(tbg, s.Hz)),
            Sub(SubAt(tf), Mul(Exp(Neg(tf)), SubAt(tr))))
\* C4: a returned array has the length and order of xarr and element i is
\* (J(tpeak,freq[i]) - J(TBG,freq[i])) * (subf[i] - exp(-tauf[i])*subr[i])
\* computed from sample i alone, TBG being 2.73 when omitted.
C4_Formula ==
    pc = "returned"
        => /\ Len(outcome.value) = Len(args.xarr)
           /\ \A i \in DOMAIN args.xarr :
                  outcome.value[i] = C4_Element(args, args.xarr[i])
C4_Witness ==
    /\ pc = "returned"
    /\ args.TBG = Omitted
    /\ Len(outcome.value) = 2
    /\ args.xarr[1] # args.xarr[2]
    /\ outcome.value[1] # outcome.value[2]
    /\ args.v_infall # Zero
    /\ Gt(outcome.value[2], Zero)

\* C5: the descriptor has the five names and bound flags, in order, every
\* per-parameter list has length 5, and no call changes it.
C5_Descriptor ==
    /\ hill5_fitter.npars = 5
    /\ hill5_fitter.parnames = <<"tau", "v_lsr", "v_infall", "sigma", "tpeak">>
    /\ hill5_fitter.parlimited =
           << <<TRUE, FALSE>>, <<FALSE, FALSE>>, <<TRUE, FALSE>>,
              <<TRUE, FALSE>>, <<TRUE, FALSE>> >>
    /\ \A j \in 1..5 : hill5_fitter.parlimits[j] = <<0, 0>>
    /\ Len(hill5_fitter.parnames) = 5 /\ Len(hill5_fitter.parlimited) = 5
    /\ Len(hill5_fitter.parlimits) = 5 /\ Len(hill5_fitter.shortvarnames) = 5
    /\ Len(hill5_fitter.guess_types) = 5
C5_Witness ==
    /\ pc = "raised"
    /\ Len(hill5_fitter.parnames) = 5
    /\ hill5_fitter.parlimited[2] = <<FALSE, FALSE>>

C6_SubAsClaimed(x, s) ==
    /\ Gt(x, Lit(1, -4)) => s = Div(Sub(Lit(1, 0), Exp(Neg(x))), x)
    /\ Le(x, Lit(1, -4)) => s = Lit(1, 0)
\* C6 (as claimed): after lines 47-50, sub(x) = (1-exp(-x))/x where
\* x > 1e-4 and sub(x) = 1 where x <= 1e-4, the threshold included.
C6_Piecewise ==
    pc \in {"l52", "l55", "returned", "raised"}
        => \A i \in DOMAIN tauf : /\ C6_SubAsClaimed(tauf[i], subf[i])
                                  /\ C6_SubAsClaimed(taur[i], subr[i])

\* C7: with v_infall = 0, vf = vr = v_lsr, tauf and taur agree at every
\* sample, so do subf and subr, the result is
\* (J(tpeak)-J(TBG)) * (sub(t) - exp(-t)*sub(t)) and swapping the two
\* profiles gives the same result.
C7_Symmetry ==
    (args.v_infall = Zero /\ pc # "ready")
        => /\ pc # "l40" => (vf = args.v_lsr /\ vr = args.v_lsr)
           /\ tauf = taur
           /\ subf = subr
           /\ pc \in {"l55", "returned", "raised"}
                 => \A i \in DOMAIN hill_array :
                      LET t  == tauf[i]
                          dJ == Sub(jfunc(args.tpeak, frequency[i]),
                                    jfunc(TBG, frequency[i]))
                      IN  /\ hill_array[i] =
                                Mul(dJ, Sub(SubAt(t), Mul(Exp(Neg(t)), SubAt(t))))
                          /\ hill_array[i] =
                                HillElement(args.tpeak, TBG, frequency[i],
                                            subr[i], subf[i], taur[i])
C7_Witness ==
    /\ pc = "returned"
    /\ args.v_infall = Zero
    /\ args.v_lsr # Zero
    /\ \E i \in DOMAIN tauf : Gt(tauf[i], Lit(1, -4)) /\ Gt(hill_array[i], Zero)

\* C8 (as claimed): for tau = 0, and at every sample whose optical-depth
\* profile is at most 1e-4, the substitution factor the result is computed
\* from is exactly 1.
C8_SmallBranch ==
    pc \in {"l52", "l55", "returned", "raised"}
        => \A i \in DOMAIN tauf :
              /\ (args.tau = Zero \/ Le(tauf[i], Lit(1, -4))) => subf[i] = Lit(1, 0)
              /\ (args.tau = Zero \/ Le(taur[i], Lit(1, -4))) => subr[i] = Lit(1, 0)

C9_Step(before, after) ==
    /\ DOMAIN after = DOMAIN before
    /\ \A i \in DOMAIN before :
          /\ after[i].c # "nan"
          /\ before[i].c = "nan" => after[i] = Lit(1, 0)
          /\ before[i].c # "nan" => after[i] = before[i]
\* C9: the step of lines 49-50 sets every NaN element of subf and subr to
\* 1.0, leaves every other element as it was, leaves no NaN and does not
\* raise.
C9_Replacement ==
    [][pc = "l49" => /\ C9_Step(subf, subf')
                     /\ C9_Step(subr, subr')
                     /\ pc' = "l52"
                     /\ outcome' = outcome]_vars
C9_Witness ==
    /\ pc = "l52"
    /\ Len(subf) = 2
    /\ IsNaN(Substitution(tauf[1])) /\ subf[1] = Lit(1, 0)
    /\ ~IsNaN(Substitution(tauf[2])) /\ subf[2] # Lit(1, 0)

\* C10: a NaN in tauf at a sample makes the result NaN at that sample and
\* the call raise, although lines 49-50 set the substitution there to 1.0.
C10_NoMask ==
    \A i \in DOMAIN tauf :
        IsNaN(tauf[i]) =>
           /\ pc \in {"l55", "returned", "raised"} => IsNaN(hill_array[i])
           /\ Ended => (pc = "raised" /\ outcome.kind = "raise"
                        /\ outcome.msg = "Hill5 model has a NAN")
C10_Witness ==
    /\ pc = "raised"
    /\ args.sigma = Zero
    /\ Len(tauf) = 2
    /\ velocity_array[2] = vf /\ IsNaN(tauf[2]) /\ subf[2] = Lit(1, 0)
    /\ ~IsNaN(taur[2])
    /\ ~IsNaN(tauf[1]) /\ ~IsNaN(hill_array[1])

====
